---- MODULE Spec2Model ----
(***************************************************************************)
(* RhythmRecognition: beat phase search (beat/beat_tracker.py,             *)
(* beat/score.py, beat/penalty.py, beat/click_track.py), adaptive peak     *)
(* picking (beat/peak_picking.py), tempo reduction (tempo/tempogram.py),   *)
(* the factory (rhythm_recognition_factory.py), the rhythmic onsets        *)
(* (rhythm/rhythm_tracker.py, rhythm/parts.py) and the song parts          *)
(* (rhythm/chorus_verse.py).                                               *)
(*                                                                         *)
(* Arithmetic.  The code computes in floating point; the model computes    *)
(* the same expressions exactly, on integers:                              *)
(*  - beat tracker times are held in "ticks" of 1/tempo millisecond, so    *)
(*    that click k (k * 60/tempo seconds) is the integer 60000 * k and a   *)
(*    time of m milliseconds is m * tempo;                                 *)
(*  - a penalty-mode score is held in units of 1/900 point;                *)
(*  - the peak picking threshold delta is the fraction                     *)
(*    delta.num / delta.den.                                               *)
(***************************************************************************)
EXTENDS Integers, Sequences, FiniteSets, TLC

VARIABLES
    \* ---- BeatTracker (beat/beat_tracker.py) ----
    tempo,               \* self.tempo, BPM
    duration,            \* self.duration, here in milliseconds
    approach,            \* "score" (ScoreBeatTracker) or "penalty" (PenaltyBeatTracker)
    tolerance,           \* ScoreBeatTracker.tolerance, milliseconds
    peak_times,          \* self.peak_times, here in milliseconds, in time order
    click_times_sec,     \* self.click_times_sec, here in ticks
    scores,              \* the dict of _try_all_time_shifts: scores[i + 1] is the score of shift i
    max_score,           \* local of get_time_shift
    max_score_shift_ms,  \* local of get_time_shift
    time_shift,          \* self.time_shift, here in milliseconds (the code divides by 1000)
    distances,           \* the distance _get_score used for each click, last call, in ticks
    click_times_shifted, \* what get_beat_track returns, in ticks; empty until it has returned
    bt_i,                \* loop index of _try_all_time_shifts / get_time_shift
    bt_pc,               \* position in get_time_shift
    \* ---- peak_pick (beat/peak_picking.py), called by BeatTracker._find_peaks ----
    novelty_function,    \* the novelty function, one value per frame
    hop_length,          \* samples between two frames
    sampling_rate,       \* samples per second
    pp_duration,         \* duration, seconds
    min_number_of_peaks, \* parameter of peak_pick (reassigned for the last part)
    part_len_seconds,    \* parameter of peak_pick
    min_delta,           \* parameter of peak_pick
    parts,               \* local of peak_pick
    part_len,            \* local of peak_pick
    last_part_len,       \* local of peak_pick
    peaks,               \* local of peak_pick: all peaks so far, frame indices from 0
    part,                \* local of peak_pick: the masked novelty function
    part_number,         \* the part in hand: 0 .. parts - 1, or -1 for the last part
    delta,               \* local of peak_pick_from_part: the fraction num/den
    peaks_in_part,       \* local "peaks" of peak_pick_from_part
    min_in_part,         \* min_number_of_peaks_in_part of peak_pick_from_part
    retries,             \* how many times peak_pick_from_part divided delta
    pp_pc,               \* position in peak_pick
    \* ---- Tempogram (tempo/tempogram.py) ----
    bpm_values,          \* self.bpm_values: the BPM value of each bin
    similarity,          \* self.similarity
    number_of_dominant_values,  \* self.number_of_dominant_values
    lower_bound,         \* self.lower_bound
    upper_bound,         \* self.upper_bound
    sum_of_tempos,       \* local of _get_possible_BPM_from_tempogram: strength of each bin
    max_bpms,            \* local of _get_possible_BPM_from_tempogram, then bpm_list
    max_bpm_indices,     \* local of _get_possible_BPM_from_tempogram, bins from 0
    weights,             \* local of _find_dominant_BPM: BPM value -> weight
    groups,              \* the dict of _group_similar_bpms, in insertion order
    tg_tempo,            \* self.tempo; None until the analysis has ended
    tg_i,                \* loop index of the loop in hand
    tg_pc,               \* position in _analyze_tempo
    \* ---- Factory (rhythm_recognition_factory.py) ----
    fa_stage,            \* the method called: "novelty", "tempogram", "beat_tracker", "rhythm_tracker"
    fa_approach,         \* its approach argument
    fa_object,           \* the class whose constructor the method called; NoObject if none
    fa_message,          \* the message of the Exception the method raised; empty if none
    fa_pc,               \* "call", "returned", or the exception raised
    \* ---- RhythmTracker (rhythm/rhythm_tracker.py, rhythm/parts.py) ----
    rt_class,            \* the class constructed
    rt_part_len_seconds, \* part_len of EqualPartsRhythmTracker, seconds
    rt_tempo,            \* self.tempo, BPM
    rt_duration,         \* self.duration, here in milliseconds
    rt_tolerance,        \* self.tolerance, milliseconds
    rt_peak_times,       \* self.peak_times, here in ticks of 1/rt_tempo ms, in time order
    beat_times,          \* self.beat_times, here in ticks of 1/rt_tempo ms
    start_time_ms,       \* argument of _find_rhythmic_onsets_parts
    end_time_ms,         \* argument of _find_rhythmic_onsets_parts
    counts,              \* the dict _calculate_score returned: offset -> count
    rt_distances,        \* the pairs (p, distance) of the candidates _calculate_score scored, p in ticks
    rt_score,            \* local "score" of _dominant_time_shifts: offset -> value, a fraction
    shifts,              \* local of _dominant_time_shifts: the (offset, value) pairs picked
    rhythmic_peaks_in_part,  \* local of _find_rhythmic_onsets_parts, in ticks
    rt_i,                \* how many keys the loop of _average_score has visited
    rt_pc,               \* position in _find_rhythmic_onsets_parts
    \* ---- the calls of _get_score, made in any order (beat/score.py, beat/penalty.py) ----
    ev_shift,            \* per evaluator: shift_ms of the call in hand; None if none
    ev_click,            \* per evaluator: which click the for loop of the call is at, from 1
    ev_peak_index,       \* per evaluator: local peak_index of the call
    ev_score,            \* per evaluator: local score of the call
    ev_scores,           \* the pairs (shift, score) of the calls that returned, in order of return
    \* ---- ChorusVerseRhythmTracker.find_song_parts (rhythm/chorus_verse.py) ----
    sp_sampling_rate,    \* self.sampling_rate
    sp_hop_length,       \* self.hop_length
    sp_duration,         \* self.duration, seconds
    rmse_diff,           \* local rmse_diff: |first-order difference| of the segment energy, per frame
    part_transitions,    \* local part_transitions, frames
    sp_i,                \* loop index of "for i in range(max_parts)"
    sp_pc                \* position in find_song_parts

bt_vars == <<tempo, duration, approach, tolerance, peak_times, click_times_sec, scores,
             max_score, max_score_shift_ms, time_shift, distances, click_times_shifted,
             bt_i, bt_pc>>

pp_vars == <<novelty_function, hop_length, sampling_rate, pp_duration, min_number_of_peaks, part_len_seconds,
             min_delta, parts, part_len, last_part_len, peaks, part, part_number, delta,
             peaks_in_part, min_in_part, retries, pp_pc>>

tg_vars == <<bpm_values, similarity, number_of_dominant_values, lower_bound, upper_bound,
             sum_of_tempos, max_bpms, max_bpm_indices, weights, groups, tg_tempo, tg_i, tg_pc>>

fa_vars == <<fa_stage, fa_approach, fa_object, fa_message, fa_pc>>
rt_vars == <<rt_class, rt_part_len_seconds, rt_tempo, rt_duration, rt_tolerance, rt_peak_times, beat_times,
             start_time_ms, end_time_ms, counts, rt_distances, rt_score, shifts,
             rhythmic_peaks_in_part, rt_i, rt_pc>>
ev_vars == <<ev_shift, ev_click, ev_peak_index, ev_score, ev_scores>>
sp_vars == <<sp_sampling_rate, sp_hop_length, sp_duration, rmse_diff, part_transitions, sp_i, sp_pc>>
vars == <<bt_vars, pp_vars, tg_vars, fa_vars, rt_vars, ev_vars, sp_vars>>

\* What an operation of one component leaves alone: the other components.
beat_rest == <<pp_vars, tg_vars, fa_vars, rt_vars, ev_vars, sp_vars>>
peak_rest == <<bt_vars, tg_vars, fa_vars, rt_vars, ev_vars, sp_vars>>
tempo_rest == <<bt_vars, pp_vars, fa_vars, rt_vars, ev_vars, sp_vars>>
factory_rest == <<bt_vars, pp_vars, tg_vars, rt_vars, ev_vars, sp_vars>>
rhythm_rest == <<bt_vars, pp_vars, tg_vars, fa_vars, ev_vars, sp_vars>>
evaluators_rest == <<pp_vars, tg_vars, fa_vars, rt_vars, sp_vars>>
song_parts_rest == <<bt_vars, pp_vars, tg_vars, fa_vars, rt_vars, ev_vars>>

\* ---------------------------------------------------------------- bounds
\* Onset candidates of the enumerated inputs lie at 0 .. MaxTime milliseconds.
MaxTime == 12
\* The enumerated candidate sets hold at most MaxPeaks candidates.
MaxPeaks == 2
\* The enumerated novelty functions have SignalLen frames.
SignalLen == 5
\* The enumerated tempo-strength profiles have NumBins bins.
NumBins == 5

\* ---------------------------------------------------------------- helpers
\* Python's None, for a tempo that has not been set (no BPM value is negative).
None == -1

Abs(x) == IF x < 0 THEN -x ELSE x

RECURSIVE SumSeq(_)
SumSeq(s) == IF s = << >> THEN 0 ELSE Head(s) + SumSeq(Tail(s))

\* The strictly increasing sequences over lo .. hi with at most n elements.
RECURSIVE IncreasingSeqs(_, _, _)
IncreasingSeqs(lo, hi, n) ==
    IF n = 0 \/ lo > hi THEN { << >> }
    ELSE { << >> } \cup
         UNION { { <<first>> \o rest : rest \in IncreasingSeqs(first + 1, hi, n - 1) } :
                 first \in lo .. hi }

\* ---------------------------------------------------------------- click track
\* One beat period, 60/tempo seconds, in ticks.
interval == 60000

\* A time in milliseconds, in ticks.
Ticks(ms) == ms * tempo

\* get_click_times_sec: curr_time = 0; [0]; while curr_time < duration: advance, append.
RECURSIVE click_loop(_, _, _)
click_loop(curr_time, click_times_arr, dur) ==
    IF curr_time < dur
    THEN click_loop(curr_time + interval, Append(click_times_arr, curr_time + interval), dur)
    ELSE click_times_arr

\* (the variant that keeps only the clicks before the end of the song)
clicks_before_end(tmp, dur_ms) ==
    LET arr == click_loop(0, <<0>>, dur_ms * tmp) IN SubSeq(arr, 1, Len(arr) - 1)
get_click_times_sec(tmp, dur_ms) == click_loop(0, <<0>>, dur_ms * tmp)

\* ---------------------------------------------------------------- _get_score
\* self.peak_times[peak_index] * 1000, in ticks (peak_index counts from 0).
peak_ms(peak_index) == Ticks(peak_times[peak_index + 1])

\* The while loop of _get_score: find a peak that is immediately after the
\* shifted click time.  Returns the state of the locals when the loop ends.
RECURSIVE advance_peak(_, _, _, _)
advance_peak(shifted, peak_index, peak, diff) ==
    IF shifted > peak
    THEN LET d == Abs(shifted - peak)
             next_index == peak_index + 1
         IN  IF next_index >= Len(peak_times)
             THEN [peak_index |-> next_index, peak |-> peak, diff |-> d]
             ELSE advance_peak(shifted, next_index, peak_ms(next_index), d)
    ELSE [peak_index |-> peak_index, peak |-> peak, diff |-> diff]

\* "check which peak is closer - the previous one or the current one?"
current_is_farther(diff, shifted, peak) == diff < Abs(shifted - peak)
current_is_closer(diff, shifted, peak) == diff > Abs(shifted - peak)

\* The body of the for loop over the clicks, up to the scoring of the click:
\* the index left for the next click and the distance used for this one.
nearest_peak(shifted, peak_index) ==
    LET r == advance_peak(shifted, peak_index, peak_ms(peak_index),
                          Abs(shifted - peak_ms(peak_index)))
    IN  IF current_is_closer(r.diff, shifted, r.peak)
        THEN [peak_index |-> r.peak_index, diff |-> Abs(shifted - r.peak)]
        ELSE [peak_index |-> IF r.peak_index > 0 THEN r.peak_index - 1 ELSE r.peak_index,
              diff |-> r.diff]

\* The distances used for clicks k .. last of one _get_score call.
RECURSIVE click_distances(_, _, _)
click_distances(shift_ms, k, peak_index) ==
    IF k > Len(click_times_sec) THEN << >>
    ELSE LET r == nearest_peak(click_times_sec[k] + Ticks(shift_ms), peak_index)
         IN  <<r.diff>> \o click_distances(shift_ms, k + 1, r.peak_index)

\* PenaltyBeatTracker._penalty, times 900.  distance is in milliseconds and
\* self.period = 60/tempo is in seconds: with d ticks = d/tempo ms,
\*   distance >= self.period/2      <=>  d/tempo >= 30/tempo  <=>  d >= 30
\*   distance**2 * (4/self.period**2) =  (d/tempo)^2 * 4 * tempo^2 / 3600 = d^2 / 900
penalty(d) == IF d >= 30 THEN 900 ELSE d * d

\* if diff <= self.tolerance
strictly_in_tolerance(d) == d < Ticks(tolerance)
in_tolerance(d) == d <= Ticks(tolerance)

\* What one click adds to the score: 1 or 0 (score.py), 1 - penalty in 1/900 (penalty.py).
click_score(d) ==
    IF approach = "score"
    THEN (IF in_tolerance(d) THEN 1 ELSE 0)
    ELSE 900 - penalty(d)

score_of(ds) == SumSeq([k \in 1 .. Len(ds) |-> click_score(ds[k])])

_get_score(shift_ms) == score_of(click_distances(shift_ms, 1, 0))

\* ---------------------------------------------------------------- get_time_shift
\* int(beat_len_ms): the number of shifts tried, range(int(60/tempo * 1000)).
shift_count_inclusive == (60000 \div tempo) + 1
shift_count == 60000 \div tempo

\* if score > max_score
better_or_equal(score, best) == score >= best
never_better(score, best) == score < best
better(score, best) == score > best

\* Inputs: fast tempos keep the search space at a few milliseconds.
FastTempos == {6000, 7000, 10000}
Durations == {4, 12}
ScoringModes == { <<"score", 0>>, <<"score", 1>>, <<"penalty", 0>> }

\* Impulse train of scenario A (s = 0) and B (s = 120): candidates at s + k*500 ms.
ImpulseTrain(s) == [k \in 1 .. 20 |-> s + (k - 1) * 500]

BeatInputs ==
    \* enumerated candidate sets
    \/ /\ tempo \in FastTempos
       /\ duration \in Durations
       /\ peak_times \in IncreasingSeqs(0, MaxTime, MaxPeaks)
       /\ \E m \in ScoringModes : approach = m[1] /\ tolerance = m[2]
    \* a period below one millisecond: no shift is tried
    \/ /\ tempo = 70000
       /\ duration = 4
       /\ peak_times \in IncreasingSeqs(0, 2, 1)
       /\ \E m \in ScoringModes : approach = m[1] /\ tolerance = m[2]
    \* a slow tempo, where one millisecond is below half a period in seconds
    \/ /\ tempo = 25
       /\ duration = 1
       /\ peak_times \in IncreasingSeqs(0, 2, 2)
       /\ approach = "penalty" /\ tolerance = 0
    \* scenarios A and B
    \/ /\ tempo = 120
       /\ duration = 10000
       /\ peak_times \in { ImpulseTrain(0), ImpulseTrain(120) }
       /\ \E m \in { <<"score", 10>>, <<"penalty", 10>> } : approach = m[1] /\ tolerance = m[2]

\* The peak picker at rest, for the specifications that do not run it.
PeakIdle ==
    /\ novelty_function = << >> /\ hop_length = 1 /\ sampling_rate = 1 /\ pp_duration = 0
    /\ min_number_of_peaks = 0 /\ part_len_seconds = 1 /\ min_delta = 1
    /\ parts = 0 /\ part_len = 0 /\ last_part_len = 0
    /\ peaks = << >> /\ part = << >> /\ part_number = 0
    /\ delta = [num |-> 100, den |-> 1]
    /\ peaks_in_part = << >> /\ min_in_part = 0 /\ retries = 0
    /\ pp_pc = "idle"

\* The tempogram at rest, for the specifications that do not run it.
TempoIdle ==
    /\ bpm_values = << >> /\ similarity = 0 /\ number_of_dominant_values = 0
    /\ lower_bound = 0 /\ upper_bound = 0
    /\ sum_of_tempos = << >> /\ max_bpms = << >> /\ max_bpm_indices = << >>
    /\ weights = << >> /\ groups = << >> /\ tg_tempo = None
    /\ tg_i = 0 /\ tg_pc = "idle"

\* The factory at rest, for the specifications that do not call it.
NoObject == "None"
FactoryIdle ==
    /\ fa_stage = "novelty" /\ fa_approach = "energy" /\ fa_object = NoObject
    /\ fa_message = << >> /\ fa_pc = "idle"

\* The rhythm tracker at rest, for the specifications that do not run it.
RhythmIdle ==
    /\ rt_class = "RhythmTracker" /\ rt_part_len_seconds = 20 /\ rt_tempo = 1 /\ rt_duration = 0 /\ rt_tolerance = 0
    /\ rt_peak_times = << >> /\ beat_times = << >>
    /\ start_time_ms = 0 /\ end_time_ms = 0
    /\ counts = << >> /\ rt_distances = << >> /\ rt_score = << >> /\ shifts = << >>
    /\ rhythmic_peaks_in_part = << >> /\ rt_i = 0 /\ rt_pc = "idle"

\* find_song_parts not called, for the specifications that do not run it.
SongPartsIdle ==
    /\ sp_sampling_rate = 1 /\ sp_hop_length = 1 /\ sp_duration = 0
    /\ rmse_diff = << >> /\ part_transitions = << >> /\ sp_i = 0 /\ sp_pc = "idle"

\* No call of _get_score in hand, none returned.
Evaluators == {1, 2}
EvIdle ==
    /\ ev_shift = [w \in Evaluators |-> None]
    /\ ev_click = [w \in Evaluators |-> 0]
    /\ ev_peak_index = [w \in Evaluators |-> 0]
    /\ ev_score = [w \in Evaluators |-> 0]
    /\ ev_scores = << >>

BeatInit ==
    /\ PeakIdle
    /\ TempoIdle
    /\ FactoryIdle
    /\ RhythmIdle
    /\ EvIdle
    /\ SongPartsIdle
    /\ BeatInputs
    /\ click_times_sec = get_click_times_sec(tempo, duration)
    /\ scores = << >>
    /\ max_score = 0
    /\ max_score_shift_ms = 0
    /\ time_shift = 0
    /\ distances = << >>
    /\ click_times_shifted = << >>
    /\ bt_i = 0
    /\ bt_pc = "try"

bt_inputs == <<tempo, duration, approach, tolerance, peak_times, click_times_sec>>

\* _try_all_time_shifts, one iteration: scores[i] = self._get_score(i).
\* With no peak, self.peak_times[0] raises IndexError.
try_shift ==
    /\ bt_pc = "try"
    /\ bt_i < shift_count
    /\ IF peak_times = << >>
       THEN /\ bt_pc' = "IndexError"
            /\ UNCHANGED <<scores, distances, bt_i>>
       ELSE /\ distances' = click_distances(bt_i, 1, 0)
            /\ scores' = Append(scores, score_of(distances'))
            /\ bt_i' = bt_i + 1
            /\ bt_pc' = bt_pc
    /\ UNCHANGED <<bt_inputs, max_score, max_score_shift_ms, time_shift>>
    /\ UNCHANGED <<click_times_shifted, beat_rest>>

\* _try_all_time_shifts returns; get_time_shift sets max_score, max_score_shift_ms.
try_all_done ==
    /\ bt_pc = "try"
    /\ bt_i >= shift_count
    /\ bt_pc' = "select"
    /\ bt_i' = 0
    /\ max_score' = 0
    /\ max_score_shift_ms' = 0
    /\ UNCHANGED <<bt_inputs, scores, time_shift, distances>>
    /\ UNCHANGED <<click_times_shifted, beat_rest>>

\* for shift, score in scores.items(): one iteration.
select_shift ==
    /\ bt_pc = "select"
    /\ bt_i < Len(scores)
    /\ IF better(scores[bt_i + 1], max_score)
       THEN max_score' = scores[bt_i + 1] /\ max_score_shift_ms' = bt_i
       ELSE UNCHANGED <<max_score, max_score_shift_ms>>
    /\ bt_i' = bt_i + 1
    /\ UNCHANGED <<bt_inputs, scores, time_shift, distances, bt_pc>>
    /\ UNCHANGED <<click_times_shifted, beat_rest>>

\* self.time_shift = max_score_shift_ms / 1000; return.
return_time_shift ==
    /\ bt_pc = "select"
    /\ bt_i >= Len(scores)
    /\ time_shift' = max_score_shift_ms
    /\ bt_pc' = "done"
    /\ UNCHANGED <<bt_inputs, scores, max_score, max_score_shift_ms, distances, bt_i>>
    /\ UNCHANGED <<click_times_shifted, beat_rest>>

\* get_beat_track: time_shift = self.get_time_shift(), the search above, then
\* click_times_shifted = self.click_times_sec + time_shift is returned.
get_beat_track ==
    /\ bt_pc = "done"
    /\ click_times_shifted' =
           [k \in 1 .. Len(click_times_sec) |-> click_times_sec[k] + Ticks(time_shift)]
    /\ bt_pc' = "returned"
    /\ UNCHANGED <<bt_inputs, scores, max_score, max_score_shift_ms, time_shift, distances, bt_i>>
    /\ UNCHANGED beat_rest

BeatNext == try_shift \/ try_all_done \/ select_shift \/ return_time_shift \/ get_beat_track

SpecBeat == BeatInit /\ [][BeatNext]_vars

\* ---------------------------------------------------------------- beat phase claims
\* The shifts of the search space, range(int(beat_len_ms)).
Shifts == 0 .. shift_count - 1

\* min over all candidates of |shifted_click - candidate|, in ticks.
min_distance(shifted) ==
    CHOOSE d \in { Abs(shifted - Ticks(peak_times[n])) : n \in 1 .. Len(peak_times) } :
        \A n \in 1 .. Len(peak_times) : d <= Abs(shifted - Ticks(peak_times[n]))

C2_ChosenShiftIsBest ==
    bt_pc = "done" =>
        \A s \in Shifts : _get_score(time_shift) >= _get_score(s)

C2_Witness ==
    /\ bt_pc = "done"
    /\ time_shift > 0
    /\ \E s \in Shifts : scores[s + 1] < scores[time_shift + 1]
    /\ \E s \in Shifts : s > time_shift /\ scores[s + 1] > 0

\* C3: among the shifts with the maximal score get_time_shift returns the first
\* one evaluated, the smallest: no shift scores more than the returned one and
\* every shift that scores as much is a later one.
C3_FirstMaximalShiftWins ==
    (bt_pc = "done" /\ shift_count > 0) =>
        \A s \in Shifts :
            /\ scores[s + 1] <= scores[time_shift + 1]
            /\ scores[s + 1] = scores[time_shift + 1] => time_shift <= s

C3_Witness ==
    /\ bt_pc = "done"
    /\ time_shift > 0
    /\ \E s \in Shifts : s > time_shift /\ scores[s + 1] = scores[time_shift + 1]

\* C4: for a non-empty time-ordered candidate sequence, the distance _get_score
\* uses for every shifted click is the distance to the nearest candidate, also
\* for clicks before the first and after the last candidate (both modes).
C4_DistanceIsNearest ==
    (bt_pc = "try" /\ bt_i > 0) =>
        \A k \in 1 .. Len(click_times_sec) :
            distances[k] = min_distance(click_times_sec[k] + Ticks(bt_i - 1))

C4_Witness ==
    /\ bt_pc = "try" /\ bt_i > 0
    /\ Len(peak_times) = 2
    /\ Len(click_times_sec) = 3
    /\ click_times_sec[1] + Ticks(bt_i - 1) < Ticks(peak_times[1])
    /\ click_times_sec[2] + Ticks(bt_i - 1) > Ticks(peak_times[1])
    /\ click_times_sec[2] + Ticks(bt_i - 1) < Ticks(peak_times[2])
    /\ distances[2] = Abs(click_times_sec[2] + Ticks(bt_i - 1) - Ticks(peak_times[1]))
    /\ click_times_sec[3] + Ticks(bt_i - 1) > Ticks(peak_times[2])

\* C5: in penalty mode each click adds 1 - penalty(d), penalty the quadratic
\* ramp 4 d^2 / period^2 with d and the period in the same unit (0 at d = 0,
\* 1 from half a period on).  In ticks period = 60000, so in 1/900 point the
\* click adds 900 - d^2 / 10^6 below half a period and 0 from there on; a click
\* strictly between 0 and half a period away adds strictly between 0 and 1.
C5_PenaltyRampInOneUnit ==
    (approach = "penalty" /\ bt_pc = "try" /\ bt_i > 0) =>
        \A k \in 1 .. Len(distances) :
            LET d == distances[k]
            IN  /\ 2 * d >= interval => click_score(d) = 0
                /\ 2 * d < interval => click_score(d) * 1000000 = 900000000 - d * d
                /\ (0 < d /\ 2 * d < interval) => (0 < click_score(d) /\ click_score(d) < 900)

C17_SparsePeaksTolerated ==
    Len(peak_times) <= 1 =>
        /\ bt_pc # "IndexError"
        /\ bt_pc = "done" => (0 <= time_shift /\ time_shift * tempo < 60000)

\* C18 as claimed: the beat track is strictly increasing, starts at the phase,
\* steps by exactly one period; unshifted, the clicks are 0, period, 2 period,
\* ..., the last one strictly after duration and every earlier one at or
\* before it.
C18_LastClickExceedsDuration ==
    bt_pc = "returned" =>
        LET n == Len(click_times_shifted)
        IN  /\ n = Len(click_times_sec) /\ n >= 1
            /\ click_times_shifted[1] = Ticks(time_shift)
            /\ \A k \in 1 .. n - 1 : click_times_shifted[k + 1] - click_times_shifted[k] = interval
            /\ \A k \in 1 .. n : click_times_sec[k] = (k - 1) * interval
            /\ click_times_sec[n] > Ticks(duration)
            /\ \A k \in 1 .. n - 1 : click_times_sec[k] <= Ticks(duration)

\* C18 amended: as above, but generation stops at the first click at or after
\* duration: the last unshifted click is >= duration (equal to it when duration
\* is a whole number of periods) and every earlier one is strictly before it.
C18_LastClickReachesDuration ==
    bt_pc = "returned" =>
        LET n == Len(click_times_shifted)
        IN  /\ n = Len(click_times_sec) /\ n >= 1
            /\ click_times_shifted[1] = Ticks(time_shift)
            /\ \A k \in 1 .. n - 1 : click_times_shifted[k + 1] - click_times_shifted[k] = interval
            /\ \A k \in 1 .. n - 1 : click_times_shifted[k] < click_times_shifted[k + 1]
            /\ \A k \in 1 .. n : click_times_sec[k] = (k - 1) * interval
            /\ click_times_sec[n] >= Ticks(duration)
            /\ \A k \in 1 .. n - 1 : click_times_sec[k] < Ticks(duration)

C18_Witness ==
    /\ bt_pc = "returned"
    /\ time_shift > 0
    /\ Len(click_times_shifted) = 3
    /\ click_times_sec[3] = Ticks(duration)
    /\ click_times_shifted[3] > Ticks(duration)


\* ================================================================ the shifts in any order
\* _try_all_time_shifts calls _get_score(i) for i = 0, 1, ... one after the
\* other.  Here the same calls are made by two evaluators, each shift once,
\* in any order and interleaved click by click; every call has its own locals
\* peak_index and score, as in the code, and reads self.peak_times and
\* self.click_times_sec only.  The sequential search runs first.

AnyOrderInputs ==
    /\ tempo = 15000
    /\ duration = 8
    /\ peak_times \in IncreasingSeqs(0, 5, MaxPeaks) \ { << >> }
    /\ \E m \in ScoringModes : approach = m[1] /\ tolerance = m[2]

AnyOrderInit ==
    /\ PeakIdle
    /\ TempoIdle
    /\ FactoryIdle
    /\ RhythmIdle
    /\ EvIdle
    /\ SongPartsIdle
    /\ AnyOrderInputs
    /\ click_times_sec = get_click_times_sec(tempo, duration)
    /\ scores = << >>
    /\ max_score = 0
    /\ max_score_shift_ms = 0
    /\ time_shift = 0
    /\ distances = << >>
    /\ click_times_shifted = << >>
    /\ bt_i = 0
    /\ bt_pc = "try"

\* The shifts whose call has returned, and those some evaluator has in hand.
returned_shifts == { ev_scores[k][1] : k \in 1 .. Len(ev_scores) }
shifts_in_hand == { ev_shift[w] : w \in Evaluators } \ {None}

\* peak_index = 0 (line 48 of score.py, line 64 of penalty.py)
carried_peak_index(w) == ev_peak_index[w]
first_peak_index(w) == 0

\* An evaluator calls _get_score(shift_ms): peak_index = 0, score = 0.
start_score(w, shift_ms) ==
    /\ bt_pc = "done"
    /\ ev_shift[w] = None
    /\ shift_ms \notin returned_shifts \cup shifts_in_hand
    /\ ev_shift' = [ev_shift EXCEPT ![w] = shift_ms]
    /\ ev_click' = [ev_click EXCEPT ![w] = 1]
    /\ ev_peak_index' = [ev_peak_index EXCEPT ![w] = first_peak_index(w)]
    /\ ev_score' = [ev_score EXCEPT ![w] = 0]
    /\ UNCHANGED <<ev_scores, bt_vars, evaluators_rest>>

\* One iteration of "for click_time in self.click_times_sec".
score_click(w) ==
    /\ ev_shift[w] # None
    /\ ev_click[w] <= Len(click_times_sec)
    /\ LET r == nearest_peak(click_times_sec[ev_click[w]] + Ticks(ev_shift[w]),
                             ev_peak_index[w])
       IN  /\ ev_peak_index' = [ev_peak_index EXCEPT ![w] = r.peak_index]
           /\ ev_score' = [ev_score EXCEPT ![w] = @ + click_score(r.diff)]
    /\ ev_click' = [ev_click EXCEPT ![w] = @ + 1]
    /\ UNCHANGED <<ev_shift, ev_scores, bt_vars, evaluators_rest>>

\* return score; scores[i] = score.
finish_score(w) ==
    /\ ev_shift[w] # None
    /\ ev_click[w] > Len(click_times_sec)
    /\ ev_scores' = Append(ev_scores, <<ev_shift[w], ev_score[w]>>)
    /\ ev_shift' = [ev_shift EXCEPT ![w] = None]
    /\ UNCHANGED <<ev_click, ev_peak_index, ev_score, bt_vars, evaluators_rest>>

AnyOrderNext ==
    \/ try_shift
    \/ try_all_done
    \/ select_shift
    \/ return_time_shift
    \/ \E w \in Evaluators : \E shift_ms \in 0 .. shift_count - 1 : start_score(w, shift_ms)
    \/ \E w \in Evaluators : score_click(w)
    \/ \E w \in Evaluators : finish_score(w)

SpecAnyOrder == AnyOrderInit /\ [][AnyOrderNext]_vars

\* Every shift has been evaluated.
all_returned == bt_pc = "done" /\ returned_shifts = 0 .. shift_count - 1
score_returned(shift_ms) ==
    (CHOOSE k \in 1 .. Len(ev_scores) : ev_scores[k][1] = shift_ms)
\* The reduction: the maximal score, the lowest shift on ties.
reduced_phase ==
    CHOOSE s \in returned_shifts :
        \A o \in returned_shifts :
            \/ ev_scores[score_returned(o)][2] < ev_scores[score_returned(s)][2]
            \/ (ev_scores[score_returned(o)][2] = ev_scores[score_returned(s)][2] /\ s <= o)

\* C19: whatever the order and the interleaving of the calls of _get_score,
\* every shift gets the score the sequential search gave it, and reducing
\* with "maximal score, lowest shift on ties" yields the phase get_time_shift
\* returned.
C19_AnyOrderSamePhase ==
    all_returned =>
        /\ \A s \in returned_shifts : ev_scores[score_returned(s)][2] = scores[s + 1]
        /\ reduced_phase = time_shift

\* The calls returned out of shift order, two shifts tie for the maximal score.
C19_Witness ==
    /\ all_returned
    /\ ev_scores[1][1] = shift_count - 1
    /\ \E a, b \in returned_shifts :
          /\ a < b
          /\ scores[a + 1] = scores[b + 1]
          /\ \A o \in returned_shifts : scores[o + 1] <= scores[a + 1]
    /\ reduced_phase # ev_scores[1][1]

\* ================================================================ peak picking
RECURSIVE Pow(_, _)
Pow(b, e) == IF e = 0 THEN 1 ELSE b * Pow(b, e - 1)

Zeros(n) == [k \in 1 .. n |-> 0]

\* Python's s[a:b] for 0 <= a, counted from 0, clipped to the sequence.
Slice(s, a, b) ==
    LET hi == IF b < Len(s) THEN b ELSE Len(s)
    IN  IF a >= hi THEN << >> ELSE SubSeq(s, a + 1, hi)

MaxOf(s) == CHOOSE m \in { s[k] : k \in 1 .. Len(s) } : \A k \in 1 .. Len(s) : s[k] <= m

\* librosa.util.peak_pick(part, pre_max=5, post_max=5, pre_avg=5, post_avg=5,
\* delta=delta, wait=5): the arguments of the two calls.
pre_max == 5
post_max == 5
pre_avg == 5
post_avg == 5
wait == 5

\* librosa.util.peak_pick: frame n (from 0) is a peak when
\*   x[n] == max(x[n - pre_max : n + post_max]),
\*   x[n] >= mean(x[n - pre_avg : n + post_avg]) + delta   (windows clipped to x)
\* and it is more than wait frames after the previous peak.
is_local_peak(x, n, dl) ==
    LET lo_max == IF n - pre_max < 0 THEN 0 ELSE n - pre_max
        lo_avg == IF n - pre_avg < 0 THEN 0 ELSE n - pre_avg
        win_max == Slice(x, lo_max, n + post_max)
        win_avg == Slice(x, lo_avg, n + post_avg)
    IN  /\ x[n + 1] = MaxOf(win_max)
        /\ (x[n + 1] * Len(win_avg) - SumSeq(win_avg)) * dl.den >= dl.num * Len(win_avg)

RECURSIVE librosa_scan(_, _, _)
librosa_scan(x, n, dl) ==
    IF n >= Len(x) THEN << >>
    ELSE IF is_local_peak(x, n, dl)
         THEN <<n>> \o librosa_scan(x, n + wait + 1, dl)
         ELSE librosa_scan(x, n + 1, dl)

librosa_peak_pick(x, dl) == librosa_scan(x, 0, dl)

\* extract_part_from_novelty, part_number == -1: [0] * (parts * part_len), the
\* frame at which the last part starts.
last_part_offset_short == (parts - 1) * part_len
last_part_offset == parts * part_len

\* extract_part_from_novelty(novelty_function, part_len, nr, parts, last_part_len)
extract_part_from_novelty(nr) ==
    IF nr = -1
    THEN Zeros(last_part_offset) \o
         \* novelty_function[-last_part_len:]; with last_part_len = 0 that is all of it
         (IF last_part_len = 0 THEN novelty_function
          ELSE Slice(novelty_function, Len(novelty_function) - last_part_len,
                     Len(novelty_function)))
    ELSE Zeros(nr * part_len) \o
         Slice(novelty_function, nr * part_len, (nr + 1) * part_len) \o
         Zeros((parts - nr - 1) * part_len) \o
         Zeros(last_part_len)

\* delta = 100
first_delta == [num |-> 100, den |-> 1]

\* delta /= 1.1
shrink(dl) == [num |-> dl.num * 10, den |-> dl.den * 11]

\* delta < min_delta
below_min_delta(dl) == dl.num < min_delta * dl.den

\* while len(peaks) < min_number_of_peaks_in_part
one_peak_short(n, target) == n + 1 < target
too_few_peaks(n, target) == n < target

\* BeatTracker._find_peaks: self.frame_times[self.peaks], the time of a frame
\* in samples (librosa.frames_to_time is frame * hop_length / sampling_rate s).
frame_samples(frame) == frame * hop_length

NoveltyValues == {0, 100, 200}
\* <<hop_length, sampling_rate>>: one or two seconds between two frames.
FrameRates == { <<1, 1>>, <<2, 1>> }
PartLengths == {1, 3, 20}
MinPeakCounts == {0, 2, 7}
MinDeltas == {70, 95}

\* The durations a novelty function of n frames comes with: n * hop_length /
\* sampling_rate when the caller gives none (BeatTracker.__init__), and the
\* length of the audio when the last frame starts at its end.
DurationsOf(n, hop, sr) == { (n * hop) \div sr, ((n - 1) * hop) \div sr }

\* The beat tracker at rest, for the specifications that do not run it.
BeatIdle ==
    /\ tempo = 1 /\ duration = 0 /\ approach = "score" /\ tolerance = 0
    /\ peak_times = << >> /\ click_times_sec = << >> /\ scores = << >>
    /\ max_score = 0 /\ max_score_shift_ms = 0 /\ time_shift = 0
    /\ distances = << >> /\ click_times_shifted = << >> /\ bt_i = 0 /\ bt_pc = "idle"

PeakInit ==
    /\ BeatIdle
    /\ TempoIdle
    /\ FactoryIdle
    /\ RhythmIdle
    /\ EvIdle
    /\ SongPartsIdle
    /\ novelty_function \in [1 .. SignalLen -> NoveltyValues]
    /\ \E r \in FrameRates : hop_length = r[1] /\ sampling_rate = r[2]
    /\ pp_duration \in DurationsOf(SignalLen, hop_length, sampling_rate)
    /\ min_number_of_peaks \in MinPeakCounts
    /\ part_len_seconds \in PartLengths
    /\ min_delta \in MinDeltas
    /\ parts = 0 /\ part_len = 0 /\ last_part_len = 0
    /\ peaks = << >> /\ part = << >> /\ part_number = 0
    /\ delta = first_delta
    /\ peaks_in_part = << >> /\ min_in_part = 0 /\ retries = 0
    /\ pp_pc = "start"

pp_inputs == <<novelty_function, hop_length, sampling_rate, pp_duration, part_len_seconds,
               min_delta>>
pp_locals == <<parts, part_len, last_part_len>>

\* peak_pick, lines 73-76.  int(len / parts) divides by zero when
\* duration < part_len_seconds.
split_into_parts ==
    /\ pp_pc = "start"
    /\ LET n_parts == pp_duration \div part_len_seconds
       IN  IF n_parts = 0
           THEN /\ pp_pc' = "ZeroDivisionError"
                /\ UNCHANGED pp_locals
           ELSE /\ parts' = n_parts
                /\ part_len' = Len(novelty_function) \div n_parts
                /\ last_part_len' = Len(novelty_function) - n_parts * part_len'
                /\ pp_pc' = "parts"
    /\ peaks' = << >>
    /\ part_number' = 0
    /\ UNCHANGED <<pp_inputs, min_number_of_peaks, part, delta, peaks_in_part, min_in_part,
                   retries>>
    /\ UNCHANGED peak_rest

\* for i in range(0, parts): delta = 100, extract the part, enter
\* peak_pick_from_part up to its first librosa call.
begin_part ==
    /\ pp_pc = "parts"
    /\ part_number >= 0 /\ part_number < parts
    /\ delta' = first_delta
    /\ part' = extract_part_from_novelty(part_number)
    /\ min_in_part' = min_number_of_peaks \div parts
    /\ peaks_in_part' = librosa_peak_pick(part', delta')
    /\ retries' = 0
    /\ pp_pc' = "while"
    /\ UNCHANGED <<pp_inputs, pp_locals, min_number_of_peaks, peaks, part_number>>
    /\ UNCHANGED peak_rest

\* One iteration of the while loop of peak_pick_from_part.
retry_part ==
    /\ pp_pc = "while"
    /\ too_few_peaks(Len(peaks_in_part), min_in_part)
    /\ delta' = shrink(delta)
    /\ retries' = retries + 1
    /\ peaks_in_part' = librosa_peak_pick(part, delta')
    /\ pp_pc' = IF below_min_delta(delta') THEN "return" ELSE "while"
    /\ UNCHANGED <<pp_inputs, pp_locals, min_number_of_peaks, peaks, part, part_number,
                   min_in_part>>
    /\ UNCHANGED peak_rest

\* The while condition fails: peak_pick_from_part returns.
enough_peaks ==
    /\ pp_pc = "while"
    /\ ~ too_few_peaks(Len(peaks_in_part), min_in_part)
    /\ pp_pc' = "return"
    /\ UNCHANGED <<pp_inputs, pp_locals, min_number_of_peaks, peaks, part, part_number, delta,
                   peaks_in_part, min_in_part, retries>>
    /\ UNCHANGED peak_rest

\* peaks.extend(list(peaks_in_part)); the next part, or return after the last.
extend_peaks ==
    /\ pp_pc = "return"
    /\ peaks' = peaks \o peaks_in_part
    /\ IF part_number = -1
       THEN pp_pc' = "done" /\ UNCHANGED part_number
       ELSE pp_pc' = "parts" /\ part_number' = part_number + 1
    /\ UNCHANGED <<pp_inputs, pp_locals, min_number_of_peaks, part, delta, peaks_in_part,
                   min_in_part, retries>>
    /\ UNCHANGED peak_rest

\* The last part, lines 86-94.
\* int(min_number_of_peaks / (duration / last_part_len)) is computed exactly,
\* as the floor of min_number_of_peaks * last_part_len / duration.
begin_last_part ==
    /\ pp_pc = "parts"
    /\ part_number = parts
    /\ part' = extract_part_from_novelty(-1)
    /\ part_number' = -1
    /\ IF last_part_len > 0
       THEN /\ delta' = first_delta
            /\ min_number_of_peaks' = (min_number_of_peaks * last_part_len) \div pp_duration
            /\ min_in_part' = min_number_of_peaks'
            /\ peaks_in_part' = librosa_peak_pick(part', delta')
            /\ retries' = 0
            /\ pp_pc' = "while"
       ELSE /\ pp_pc' = "done"
            /\ UNCHANGED <<min_number_of_peaks, delta, peaks_in_part, min_in_part, retries>>
    /\ UNCHANGED <<pp_inputs, pp_locals, peaks>>
    /\ UNCHANGED peak_rest

PeakNext ==
    \/ split_into_parts
    \/ begin_part
    \/ retry_part
    \/ enough_peaks
    \/ extend_peaks
    \/ begin_last_part

SpecPeak == PeakInit /\ [][PeakNext]_vars

\* ---------------------------------------------------------------- peak picking claims
\* The frame range [segment_first, segment_end) of the part in hand.
segment_first == IF part_number = -1 THEN parts * part_len ELSE part_number * part_len
segment_end ==
    IF part_number = -1 THEN Len(novelty_function) ELSE (part_number + 1) * part_len

\* C7: the peak frame indices of peak_pick are strictly increasing, every peak
\* found for a segment lies in that segment's frame range, and the peak times
\* lie in [0, duration].
C7_PeaksIncreasingInRange ==
    /\ pp_pc \in {"while", "return"} =>
          \A k \in 1 .. Len(peaks_in_part) :
              segment_first <= peaks_in_part[k] /\ peaks_in_part[k] < segment_end
    /\ \A k \in 1 .. Len(peaks) - 1 : peaks[k] < peaks[k + 1]
    /\ \A k \in 1 .. Len(peaks) :
          /\ 0 <= frame_samples(peaks[k])
          /\ frame_samples(peaks[k]) <= pp_duration * sampling_rate

C7_Witness ==
    /\ pp_pc = "done"
    /\ Len(peaks) >= 3
    /\ last_part_len > 0
    /\ peaks[Len(peaks)] >= parts * part_len
    /\ peaks[1] < part_len

\* The number of divisions after which delta is below min_delta: the least k
\* with 100 / 1.1^k < min_delta (the loop divides once before it first looks).
retries_needed ==
    LET below(k) == 100 * Pow(10, k) < min_delta * Pow(11, k)
        least == CHOOSE k \in 0 .. 8 : below(k) /\ \A j \in 0 .. k - 1 : ~ below(j)
    IN  IF least = 0 THEN 1 ELSE least

\* C8: peak_pick_from_part starts at threshold 100, divides it by 1.1 on each
\* retry, stops after a bounded number of retries, and when it returns the
\* segment yielded its target number of peaks or the threshold is below
\* min_delta; the only error peak_pick raises comes from the split, never from
\* a segment that stays short of its target.
C8_AdaptiveThreshold ==
    /\ pp_pc \in {"while", "return"} =>
          /\ delta.num = 100 * Pow(10, retries) /\ delta.den = Pow(11, retries)
          /\ retries <= retries_needed
    /\ pp_pc = "return" =>
          Len(peaks_in_part) >= min_in_part \/ below_min_delta(delta)
    /\ pp_pc \in {"start", "parts", "while", "return", "done", "ZeroDivisionError"}
    /\ pp_pc = "ZeroDivisionError" => pp_duration < part_len_seconds

C8_Witness ==
    /\ pp_pc = "return"
    /\ Len(peaks_in_part) >= 1
    /\ Len(peaks_in_part) < min_in_part
    /\ below_min_delta(delta)
    /\ retries = 4

\* C20: for every duration > 0 and part_len_seconds > 0, also when duration <
\* part_len_seconds (no whole part), peak_pick splits the frames into
\* parts = floor(duration / part_len_seconds) parts of equal length and one
\* remainder that together hold every frame once, and every masked array the
\* local-maximum detector is given has the signal's length, equals the signal on
\* its part and is zero elsewhere.
C20_PartitionCoversSignal ==
    /\ pp_pc # "ZeroDivisionError"
    /\ pp_pc \notin {"start", "ZeroDivisionError"} =>
          /\ parts = pp_duration \div part_len_seconds
          /\ last_part_len >= 0
          /\ parts * part_len + last_part_len = Len(novelty_function)
    /\ pp_pc \in {"while", "return"} =>
          /\ Len(part) = Len(novelty_function)
          /\ \A n \in 1 .. Len(part) :
                part[n] = (IF segment_first < n /\ n <= segment_end
                           THEN novelty_function[n] ELSE 0)

\* C21: the target of the remainder segment is min_number_of_peaks scaled by
\* the fraction of the signal the remainder covers, remainder frames over all
\* frames, and so it never exceeds min_number_of_peaks.
C21_RemainderTargetProportional ==
    [][(begin_last_part /\ last_part_len > 0) =>
          /\ min_in_part' = (min_number_of_peaks * last_part_len) \div Len(novelty_function)
          /\ min_in_part' <= min_number_of_peaks]_vars

\* ================================================================ tempo reduction
\* np.argmax: the first bin (from 0) that holds the maximum.
argmax(s) == CHOOSE k \in 0 .. Len(s) - 1 :
                 /\ \A j \in 1 .. Len(s) : s[j] <= s[k + 1]
                 /\ \A j \in 0 .. k - 1 : s[j + 1] < s[k + 1]

\* self.lower_bound <= i <= self.upper_bound
at_most_upper_bound(bpm) == bpm <= upper_bound
in_bounds(bpm) == lower_bound <= bpm /\ bpm <= upper_bound

\* [i for i in self.bpm_values[max_bpm_indices] if in_bounds(i)]
RECURSIVE in_bound_values(_)
in_bound_values(indices) ==
    IF indices = << >> THEN << >>
    ELSE LET bpm == bpm_values[Head(indices) + 1]
         IN  (IF in_bounds(bpm) THEN <<bpm>> ELSE << >>) \o in_bound_values(Tail(indices))

\* if abs(bpm - key) <= self.similarity
strictly_within_similarity(bpm, key) == Abs(bpm - key) < similarity
within_similarity(bpm, key) == Abs(bpm - key) <= similarity

\* _group_similar_bpms, the body of "for bpm in bpm_list": bpm joins every
\* group whose key is similar, or starts a group of its own.
group_bpm(gs, bpm) ==
    IF \E k \in 1 .. Len(gs) : within_similarity(bpm, gs[k].key)
    THEN [k \in 1 .. Len(gs) |->
             IF within_similarity(bpm, gs[k].key)
             THEN [gs[k] EXCEPT !.members = Append(@, bpm)]
             ELSE gs[k]]
    ELSE Append(gs, [key |-> bpm, members |-> <<bpm>>])

\* _find_dominant_BPM: weights[bpm_list[i]] = len(bpm_list) - i, a later i overwrites.
weights_of(bpm_list) ==
    [bpm \in { bpm_list[k] : k \in 1 .. Len(bpm_list) } |->
        LET last == CHOOSE k \in 1 .. Len(bpm_list) :
                        /\ bpm_list[k] = bpm
                        /\ \A j \in k + 1 .. Len(bpm_list) : bpm_list[j] # bpm
        IN  Len(bpm_list) - (last - 1)]

\* Python's round(a / b) for a >= 0, b > 0: to the nearest integer, a half to the even one.
round(a, b) ==
    LET q == a \div b
        r == a % b
    IN  IF 2 * r < b THEN q
        ELSE IF 2 * r > b THEN q + 1
        ELSE IF q % 2 = 0 THEN q ELSE q + 1

group_bpm_sum(g, w) == SumSeq([k \in 1 .. Len(g.members) |-> g.members[k] * w[g.members[k]]])
group_weight(g, w) == SumSeq([k \in 1 .. Len(g.members) |-> w[g.members[k]]])

\* if dominant_weight < weight
heavier_or_equal(weight, dominant_weight) == dominant_weight <= weight
heavier(weight, dominant_weight) == dominant_weight < weight

\* _get_dominant_group_avg: the loop over groups.values(), from group k on.
RECURSIVE dominant_from(_, _, _, _, _)
dominant_from(gs, w, k, dominant_bpm, dominant_weight) ==
    IF k > Len(gs) THEN dominant_bpm
    ELSE LET weight == group_weight(gs[k], w)
             average == round(group_bpm_sum(gs[k], w), weight)
         IN  IF heavier(weight, dominant_weight)
             THEN dominant_from(gs, w, k + 1, average, weight)
             ELSE dominant_from(gs, w, k + 1, dominant_bpm, dominant_weight)

_get_dominant_group_avg(gs, w) == dominant_from(gs, w, 1, None, 0)

\* Inputs.  bpm_values as librosa.fourier_tempo_frequencies gives them (bin k
\* is k times the bin width, here 4 BPM) and as 60 / t[1:] of the
\* autocorrelation variant gives them (here 420 / (k + 1)), each with bounds.
FourierBins == [k \in 1 .. NumBins |-> (k - 1) * 4]
LagBins == [k \in 1 .. NumBins |-> 420 \div k]
BinsAndBounds ==
    { <<FourierBins, 4, 12>>, <<FourierBins, 100, 200>>, <<LagBins, 100, 500>> }
Strengths == 0 .. 3
Similarities == {4, 40}
DominantValueCounts == {1, 3}

TempoInit ==
    /\ BeatIdle
    /\ PeakIdle
    /\ FactoryIdle
    /\ RhythmIdle
    /\ EvIdle
    /\ SongPartsIdle
    /\ \E b \in BinsAndBounds : bpm_values = b[1] /\ lower_bound = b[2] /\ upper_bound = b[3]
    /\ similarity \in Similarities
    /\ number_of_dominant_values \in DominantValueCounts
    /\ sum_of_tempos \in [1 .. NumBins -> Strengths]
    /\ max_bpms = << >>
    /\ max_bpm_indices = << >>
    /\ weights = << >>
    /\ groups = << >>
    /\ tg_tempo = None
    /\ tg_i = 0
    /\ tg_pc = "extract"

tg_inputs == <<bpm_values, similarity, number_of_dominant_values, lower_bound, upper_bound>>

\* _get_possible_BPM_from_tempogram, one iteration of "for i in range(n)":
\* take the strongest bin and zero it.
extract_max ==
    /\ tg_pc = "extract"
    /\ tg_i < number_of_dominant_values
    /\ LET max_bpm == argmax(sum_of_tempos)
       IN  /\ max_bpm_indices' = Append(max_bpm_indices, max_bpm)
           /\ sum_of_tempos' = [sum_of_tempos EXCEPT ![max_bpm + 1] = 0]
    /\ tg_i' = tg_i + 1
    /\ UNCHANGED <<tg_inputs, max_bpms, weights, groups, tg_tempo, tg_pc>>
    /\ UNCHANGED tempo_rest

\* The round ends: max_bpms.extend(the in-bound values); the while condition
\* len(max_bpms) < n starts another round or returns max_bpms, and
\* _find_dominant_BPM sets the weights.
end_round ==
    /\ tg_pc = "extract"
    /\ tg_i >= number_of_dominant_values
    /\ max_bpms' = max_bpms \o in_bound_values(max_bpm_indices)
    /\ max_bpm_indices' = << >>
    /\ tg_i' = 0
    /\ IF Len(max_bpms') < number_of_dominant_values
       THEN UNCHANGED <<weights, tg_pc>>
       ELSE weights' = weights_of(max_bpms') /\ tg_pc' = "group"
    /\ UNCHANGED <<tg_inputs, sum_of_tempos, groups, tg_tempo>>
    /\ UNCHANGED tempo_rest

\* _group_similar_bpms, one iteration of "for bpm in bpm_list".
group_next_bpm ==
    /\ tg_pc = "group"
    /\ tg_i < Len(max_bpms)
    /\ groups' = group_bpm(groups, max_bpms[tg_i + 1])
    /\ tg_i' = tg_i + 1
    /\ UNCHANGED <<tg_inputs, sum_of_tempos, max_bpms, max_bpm_indices, weights, tg_tempo,
                   tg_pc>>
    /\ UNCHANGED tempo_rest

\* _group_similar_bpms returns the groups.
return_groups ==
    /\ tg_pc = "group"
    /\ tg_i >= Len(max_bpms)
    /\ tg_pc' = "grouped"
    /\ UNCHANGED <<tg_inputs, sum_of_tempos, max_bpms, max_bpm_indices, weights, groups,
                   tg_tempo, tg_i>>
    /\ UNCHANGED tempo_rest

\* self.tempo = self._find_dominant_BPM(max_bpms): the dominant group's average.
set_tempo ==
    /\ tg_pc = "grouped"
    /\ tg_tempo' = _get_dominant_group_avg(groups, weights)
    /\ tg_pc' = "done"
    /\ UNCHANGED <<tg_inputs, sum_of_tempos, max_bpms, max_bpm_indices, weights, groups, tg_i>>
    /\ UNCHANGED tempo_rest

TempoNext ==
    \/ extract_max
    \/ end_round
    \/ group_next_bpm
    \/ return_groups
    \/ set_tempo

\* The analysis is one sequential call: it takes its next step whenever it has one.
SpecTempo == TempoInit /\ [][TempoNext]_vars /\ WF_vars(TempoNext)

\* ---------------------------------------------------------------- tempo claims
no_bin_in_bounds == \A k \in 1 .. Len(bpm_values) : ~ in_bounds(bpm_values[k])

\* C9: when no bin has a BPM value within [lower_bound, upper_bound], tempo
\* estimation ends by signalling an estimation failure: it returns no tempo
\* and it does not go on extracting forever.
C9_NoBinInBoundsFails ==
    [](no_bin_in_bounds => (tg_pc # "done" /\ <>(tg_pc = "EstimationFailure")))

\* The members of the groups, as sets.
members_of(g) == { g.members[k] : k \in 1 .. Len(g.members) }
candidates == { max_bpms[k] : k \in 1 .. Len(max_bpms) }
first_index(bpm) == CHOOSE k \in 1 .. Len(max_bpms) :
                        max_bpms[k] = bpm /\ \A j \in 1 .. k - 1 : max_bpms[j] # bpm

\* C10 as claimed: after _group_similar_bpms every two candidates that differ
\* by at most similarity are both members of at least one common group.
C10_SimilarShareGroup ==
    tg_pc \in {"grouped", "done"} =>
        \A a, b \in candidates :
            Abs(a - b) <= similarity =>
                \E k \in 1 .. Len(groups) : a \in members_of(groups[k]) /\ b \in members_of(groups[k])

\* C10 amended: after _group_similar_bpms every candidate is a member of some
\* group, and of every group whose representative (its key, the first member)
\* comes no later in the list and differs from it by at most similarity.
C10_SimilarToRepresentativeShareGroup ==
    tg_pc \in {"grouped", "done"} =>
        /\ \A a \in candidates : \E k \in 1 .. Len(groups) : a \in members_of(groups[k])
        /\ \A k \in 1 .. Len(groups) :
              /\ groups[k].members[1] = groups[k].key
              /\ \A j \in 1 .. Len(max_bpms) :
                    (first_index(groups[k].key) <= j
                        /\ Abs(max_bpms[j] - groups[k].key) <= similarity)
                    => max_bpms[j] \in members_of(groups[k])

C10_Witness ==
    /\ tg_pc = "grouped"
    /\ Len(groups) = 2
    /\ Len(groups[1].members) = 2
    /\ Abs(groups[1].members[2] - groups[1].key) = similarity
    /\ Abs(groups[1].members[2] - groups[2].key) <= similarity

\* The sum of f over the finite set S.
RECURSIVE SetSum(_, _)
SetSum(f, S) == IF S = {} THEN 0
                ELSE LET x == CHOOSE y \in S : TRUE
                     IN  f[x] + SetSum(f, S \ {x})

all_distinct == \A i, j \in 1 .. Len(max_bpms) : max_bpms[i] = max_bpms[j] => i = j
\* The weight of a candidate by its rank in the list: len(list) - i, i from 0.
rank_weight == [bpm \in candidates |-> Len(max_bpms) - (first_index(bpm) - 1)]
weighted_bpm == [bpm \in candidates |-> rank_weight[bpm] * bpm]
total_weight(k) == SetSum(rank_weight, members_of(groups[k]))
\* t is the weighted average of group k rounded to a nearest integer.
is_rounded_average(t, k) ==
    2 * Abs(t * total_weight(k) - SetSum(weighted_bpm, members_of(groups[k]))) <= total_weight(k)

\* C11: for a list of distinct candidates the i-th candidate (from 0) has
\* weight len(list) - i, and the tempo is the rounded weighted average of the
\* members of the group with the largest total weight, of the first created
\* one when several groups have that weight.
C11_TempoIsHeaviestGroupAverage ==
    (tg_pc = "done" /\ all_distinct) =>
        /\ \A i \in 1 .. Len(max_bpms) : weights[max_bpms[i]] = Len(max_bpms) - (i - 1)
        /\ \E k \in 1 .. Len(groups) :
              /\ \A j \in 1 .. Len(groups) : total_weight(j) <= total_weight(k)
              /\ \A j \in 1 .. k - 1 : total_weight(j) < total_weight(k)
              /\ is_rounded_average(tg_tempo, k)

C11_Witness ==
    /\ tg_pc = "done"
    /\ all_distinct
    /\ Len(groups) >= 2
    /\ total_weight(1) = total_weight(2)
    /\ Len(groups[2].members) = 2
    /\ is_rounded_average(tg_tempo, 1)
    /\ ~ is_rounded_average(tg_tempo, 2)

\* The bins have pairwise different BPM values, so two candidates come from
\* different bins exactly when their values differ.
extraction_returned == tg_pc \in {"group", "grouped", "done"}

\* C22: _get_possible_BPM_from_tempogram terminates for every profile, and the
\* list it returns holds at least number_of_dominant_values candidates, every
\* one within the bounds and each taken from a different bin.
C22_ExtractionTerminates ==
    /\ <>extraction_returned
    /\ [](extraction_returned =>
            /\ Len(max_bpms) >= number_of_dominant_values
            /\ \A k \in 1 .. Len(max_bpms) : in_bounds(max_bpms[k])
            /\ all_distinct)

\* C30: the tempo that tempo estimation returns is an integer within
\* [lower_bound, upper_bound].
C30_TempoWithinBounds ==
    tg_pc = "done" => (tg_tempo \in Int /\ lower_bound <= tg_tempo /\ tg_tempo <= upper_bound)

\* The tempo is the average of a group of several candidates, none of them
\* the tempo itself.
C30_Witness ==
    /\ tg_pc = "done"
    /\ \E k \in 1 .. Len(groups) :
          /\ Cardinality(members_of(groups[k])) >= 2
          /\ is_rounded_average(tg_tempo, k)
          /\ tg_tempo \notin candidates
    /\ lower_bound <= tg_tempo /\ tg_tempo <= upper_bound

\* ================================================================ stage factory
\* The option lists of the module, lines 22-25.
NOVELTY == <<"energy", "spectral">>
TEMPO == <<"fourier", "autocorrelation", "hybrid">>
BEAT == <<"score", "penalty">>
\* (the list as the docstring of detect.rhythm_track gives it)
RHYTHM_as_documented == <<"score", "chorus-verse">>
RHYTHM == <<"parts", "chorus-verse">>

\* raise Exception("Invalid ... approach, options are: " + str(OPTIONS)): the
\* message, as the text and the list that str() prints.
invalid_approach(what, options) == <<"Invalid " \o what \o " approach, options are: ", options>>

\* The approach strings a caller may pass: the nine options, and strings that
\* are no option of any stage.
Approaches ==
    {"energy", "spectral", "fourier", "autocorrelation", "hybrid", "score", "penalty", "parts",
     "chorus-verse", "", "Energy", "equal-parts", "chorus_verse", "binary", "auto"}
Stages == {"novelty", "tempogram", "beat_tracker", "rhythm_tracker"}

FactoryInit ==
    /\ BeatIdle
    /\ PeakIdle
    /\ TempoIdle
    /\ RhythmIdle
    /\ EvIdle
    /\ SongPartsIdle
    /\ fa_stage \in Stages
    /\ fa_approach \in Approaches
    /\ fa_object = NoObject
    /\ fa_message = << >>
    /\ fa_pc = "call"

\* The method returns the object it constructed.
constructs(class) ==
    /\ fa_object' = class
    /\ fa_message' = << >>
    /\ fa_pc' = "returned"

\* The method raises Exception(message).
raises(message) ==
    /\ fa_object' = NoObject
    /\ fa_message' = message
    /\ fa_pc' = "Exception"

\* Factory.init_novelty
init_novelty ==
    /\ fa_pc = "call" /\ fa_stage = "novelty"
    /\ IF fa_approach = "energy" THEN constructs("EnergyNovelty")
       ELSE IF fa_approach = "spectral" THEN constructs("SpectralNovelty")
       ELSE raises(invalid_approach("novelty function", NOVELTY))
    /\ UNCHANGED <<fa_stage, fa_approach, factory_rest>>

\* Factory.init_tempogram
init_tempogram ==
    /\ fa_pc = "call" /\ fa_stage = "tempogram"
    /\ IF fa_approach = "fourier" THEN constructs("FourierTempogram")
       ELSE IF fa_approach = "autocorrelation" THEN constructs("AutocorrelationTempogram")
       ELSE IF fa_approach = "hybrid" THEN constructs("HybridTempogram")
       ELSE raises(invalid_approach("tempogram", TEMPO))
    /\ UNCHANGED <<fa_stage, fa_approach, factory_rest>>

\* Factory.init_beat_tracker
init_beat_tracker ==
    /\ fa_pc = "call" /\ fa_stage = "beat_tracker"
    /\ IF fa_approach = "score" THEN constructs("ScoreBeatTracker")
       ELSE IF fa_approach = "penalty" THEN constructs("PenaltyBeatTracker")
       ELSE raises(invalid_approach("beat tracking", BEAT))
    /\ UNCHANGED <<fa_stage, fa_approach, factory_rest>>

\* Factory.init_rhythm_tracker.  EqualPartsRhythmTracker.__init__ hands
\* RhythmTracker.__init__ ten positional arguments (num_rhythmic_onsets among
\* them) where it takes nine: the construction raises TypeError.
init_rhythm_tracker ==
    /\ fa_pc = "call" /\ fa_stage = "rhythm_tracker"
    /\ IF fa_approach = "parts"
       THEN fa_object' = NoObject /\ fa_message' = << >> /\ fa_pc' = "TypeError"
       ELSE IF fa_approach = "chorus-verse" THEN constructs("ChorusVerseRhythmTracker")
       ELSE raises(invalid_approach("rhythm tracking", RHYTHM))
    /\ UNCHANGED <<fa_stage, fa_approach, factory_rest>>

FactoryNext == init_novelty \/ init_tempogram \/ init_beat_tracker \/ init_rhythm_tracker

SpecFactory == FactoryInit /\ [][FactoryNext]_vars

\* ---------------------------------------------------------------- factory claims
\* The valid options of a stage: the approaches the stage has a class for
\* (onset/, tempo/, beat/, rhythm/).
valid_options(stage) ==
    CASE stage = "novelty" -> {"energy", "spectral"}
      [] stage = "tempogram" -> {"fourier", "autocorrelation", "hybrid"}
      [] stage = "beat_tracker" -> {"score", "penalty"}
      [] stage = "rhythm_tracker" -> {"parts", "chorus-verse"}
listed(message) == { message[2][k] : k \in 1 .. Len(message[2]) }

RtTicks(ms) == ms * rt_tempo

\* int(self.period * 1000): the beat period in whole milliseconds.
period_int == 60000 \div rt_tempo

\* distance = int(p - b), p and b in milliseconds: int() rounds towards zero.
int_ms(d) == IF d >= 0 THEN d \div rt_tempo ELSE -((-d) \div rt_tempo)

\* while distance > period_ms, with period_ms = self.period * 1000
beyond_period(distance) == distance * rt_tempo > 60000

\* The while loop of lines 154-159 (and 190-195): move to later beats.
RECURSIVE next_beat(_, _, _)
next_beat(p, beat_index, distance) ==
    IF beyond_period(distance)
    THEN LET nxt == beat_index + 1
         IN  IF nxt >= Len(beat_times)
             THEN [beat_index |-> nxt, distance |-> distance]
             ELSE next_beat(p, nxt, int_ms(p - beat_times[nxt + 1]))
    ELSE [beat_index |-> beat_index, distance |-> distance]

\* Lines 152-159: b = self.beat_times[beat_index] * 1000, distance = int(p - b),
\* then the while loop.
beat_distance(p, beat_index) ==
    next_beat(p, beat_index, int_ms(p - beat_times[beat_index + 1]))

\* range(int(distance - self.tolerance), int(distance + self.tolerance))
tolerance_window(distance) == (distance - rt_tolerance) .. (distance + rt_tolerance - 1)

\* (the variant without line 200: the offsets are not wrapped)
add_score_unwrapped(sc, distance) ==
    LET keys == (DOMAIN sc) \cup tolerance_window(distance)
    IN  [key \in keys |-> (IF key \in DOMAIN sc THEN sc[key] ELSE 0) +
                              (IF key \in tolerance_window(distance) THEN 1 ELSE 0)]
\* Lines 199-206: every j of the window, taken modulo the period, gets one point.
add_score(sc, distance) ==
    LET hits(key) == Cardinality({ j \in tolerance_window(distance) : j % period_int = key })
        keys == (DOMAIN sc) \cup { j % period_int : j \in tolerance_window(distance) }
    IN  [key \in keys |-> (IF key \in DOMAIN sc THEN sc[key] ELSE 0) + hits(key)]

\* _calculate_score, the loop over self.peak_times from peak k on.  error is
\* the IndexError of self.beat_times[beat_index] once the beats are used up.
RECURSIVE score_peaks(_, _, _, _)
score_peaks(k, beat_index, sc, ds) ==
    IF k > Len(rt_peak_times) THEN [score |-> sc, distances |-> ds, error |-> FALSE]
    ELSE LET p == rt_peak_times[k]
         IN  IF p < RtTicks(start_time_ms) THEN score_peaks(k + 1, beat_index, sc, ds)
             ELSE IF p >= RtTicks(end_time_ms)
                  THEN [score |-> sc, distances |-> ds, error |-> FALSE]
             ELSE IF beat_index >= Len(beat_times)
                  THEN [score |-> sc, distances |-> ds, error |-> TRUE]
             ELSE LET r == beat_distance(p, beat_index)
                  IN  score_peaks(k + 1, r.beat_index, add_score(sc, r.distance),
                                  Append(ds, <<p, r.distance>>))

_calculate_score == score_peaks(1, 0, << >>, << >>)

\* The values of the score dict after _average_score are quotients: fractions
\* num/den in lowest terms.
RECURSIVE GCD(_, _)
GCD(a, b) == IF b = 0 THEN a ELSE GCD(b, a % b)
Frac(n, d) == IF n = 0 THEN [num |-> 0, den |-> 1]
              ELSE [num |-> n \div GCD(n, d), den |-> d \div GCD(n, d)]
frac_add(x, y) == Frac(x.num * y.den + y.num * x.den, x.den * y.den)
frac_less(x, y) == x.num * y.den < y.num * x.den

\* if j < 0 or j > self.duration * 1000: continue
skipped(j) == j < 0 \/ j > rt_duration

\* if j in scores and j != time
is_neighbour(sc, time, j) == ~ skipped(j) /\ j \in DOMAIN sc /\ j # time

\* Lines 217-221: what the inner loop adds to scores[time], the sum of
\* scores[j] over the neighbours j in lo .. hi (summed by halves; the sum of
\* fractions does not depend on the order).
RECURSIVE neighbour_sum(_, _, _, _)
neighbour_sum(sc, time, lo, hi) ==
    IF lo > hi THEN Frac(0, 1)
    ELSE IF lo = hi THEN (IF is_neighbour(sc, time, lo) THEN sc[lo] ELSE Frac(0, 1))
    ELSE frac_add(neighbour_sum(sc, time, lo, (lo + hi) \div 2),
                  neighbour_sum(sc, time, ((lo + hi) \div 2) + 1, hi))

\* Lines 216-223, the body of "for time, s in scores.items()": the new
\* scores[time].  The dict is changed in place, so a later key sees the new
\* values of the earlier ones.
average_key(sc, time) ==
    LET total == frac_add(sc[time],
                          neighbour_sum(sc, time, time - rt_tolerance, time + rt_tolerance - 1))
        normalization ==
            1 + Cardinality({ j \in tolerance_window(time) : is_neighbour(sc, time, j) })
    IN  Frac(total.num, total.den * normalization)

\* The key that "for time, s in scores.items()" visits in iteration i (from 0):
\* the dict was sorted by key.
key_at(sc, i) == CHOOSE x \in DOMAIN sc : Cardinality({ y \in DOMAIN sc : y < x }) = i

\* max(score.items(), key=lambda k: k[1]): the first item, in key order, whose
\* value is maximal.
max_item(sc) ==
    CHOOSE k \in DOMAIN sc :
        /\ \A j \in DOMAIN sc : ~ frac_less(sc[k], sc[j])
        /\ \A j \in DOMAIN sc : j < k => frac_less(sc[j], sc[k])

\* Lines 242-246: score[j] = 0 for the keys around the picked time.
suppress(sc, time) ==
    [j \in DOMAIN sc |->
        IF j \in tolerance_window(time) /\ ~ skipped(j) THEN Frac(0, 1) ELSE sc[j]]

\* shifts_ms = [shift[0] for shift in shifts]
shifts_ms == { shifts[k][1] : k \in 1 .. Len(shifts) }

\* Lines 162-164: the peak is appended once for every j of its window that is
\* a dominant shift.
times_appended(distance) == Cardinality({ j \in tolerance_window(distance) : j \in shifts_ms })

\* _find_rhythmic_onsets_parts, the loop over self.peak_times from peak k on.
RECURSIVE rhythmic_peaks(_, _, _)
rhythmic_peaks(k, beat_index, found) ==
    IF k > Len(rt_peak_times) THEN [peaks |-> found, error |-> FALSE]
    ELSE LET p == rt_peak_times[k]
         IN  IF p < RtTicks(start_time_ms) THEN rhythmic_peaks(k + 1, beat_index, found)
             ELSE IF p >= RtTicks(end_time_ms) THEN [peaks |-> found, error |-> FALSE]
             ELSE IF beat_index >= Len(beat_times) THEN [peaks |-> found, error |-> TRUE]
             ELSE LET r == beat_distance(p, beat_index)
                  IN  rhythmic_peaks(k + 1, r.beat_index,
                                     found \o [n \in 1 .. times_appended(r.distance) |-> p])

\* Inputs.  The beat grid the tracker is given is what get_beat_track returns
\* for the tempo, duration and phase: the clicks, shifted by the phase.
beat_grid(tmp, dur_ms, phase_ms) ==
    [k \in 1 .. Len(get_click_times_sec(tmp, dur_ms)) |->
        get_click_times_sec(tmp, dur_ms)[k] + phase_ms * tmp]

\* Times in milliseconds as ticks; half = 1 moves every time half a millisecond on.
in_ticks(times_ms, tmp, half) ==
    [k \in 1 .. Len(times_ms) |-> times_ms[k] * tmp + half * (tmp \div 2)]

\* One candidate on every beat of a 40 ms song at 6000 BPM, and noise between.
BeatsWithNoise ==
    { <<0, 10, 15, 20, 30>>, <<0, 10, 14, 20, 27, 30>>, <<0, 10, 20, 30>> }
\* One candidate on every beat of a 10 s song at 120 BPM, and noise between.
ImpulseTrainWithNoise ==
    [k \in 1 .. 22 |-> IF k <= 3 THEN (k - 1) * 500
                       ELSE IF k = 4 THEN 1250
                       ELSE IF k <= 8 THEN (k - 2) * 500
                       ELSE IF k = 9 THEN 3100
                       ELSE (k - 3) * 500]
Windows == { <<0, 20>>, <<4, 9>>, <<0, 10>> }

\* EqualPartsRhythmTracker.find_rhythmic_onsets, lines 58-67: the windows it
\* passes to _find_rhythmic_onsets_parts, in milliseconds: one for every i in
\* range(int(duration // part_len_seconds)), then the last part.
equal_parts_windows(dur_ms, len_seconds) ==
    LET whole == dur_ms \div (len_seconds * 1000)
    IN  [i \in 1 .. whole + 1 |->
            IF i <= whole THEN <<(i - 1) * len_seconds * 1000, i * len_seconds * 1000>>
            ELSE <<whole * len_seconds * 1000, dur_ms>>]
PartLens == {4, 10, 20}
SongDurations == {3000, 8000, 10000, 11500}

RhythmInputs ==
    \* enumerated candidate sets, on and off the millisecond
    \/ /\ rt_class = "ChorusVerseRhythmTracker"
       /\ rt_part_len_seconds = 20
       /\ rt_tempo \in {6000, 7000}
       /\ rt_duration = 20
       /\ rt_tolerance \in {1, 2}
       /\ \E s \in IncreasingSeqs(0, MaxTime, MaxPeaks), half \in {0, 1} :
             rt_peak_times = in_ticks(s, rt_tempo, half)
       /\ \E phase \in {0, 3} : beat_times = beat_grid(rt_tempo, rt_duration, phase)
       /\ \E w \in Windows : start_time_ms = w[1] /\ end_time_ms = w[2]
    \* the impulse train at 120 BPM, phase 0, 10 s, in parts of 10 s
    \/ /\ rt_class \in {"EqualPartsRhythmTracker", "ChorusVerseRhythmTracker"}
       /\ rt_part_len_seconds = 10
       /\ rt_tempo = 120
       /\ rt_duration = 10000
       /\ rt_tolerance \in {10, 20}
       /\ rt_peak_times \in { in_ticks(ImpulseTrain(0), 120, 0),
                              in_ticks(ImpulseTrainWithNoise, 120, 0) }
       /\ beat_times = beat_grid(120, 10000, 0)
       /\ \E i \in 1 .. Len(equal_parts_windows(10000, 10)) :
             /\ start_time_ms = equal_parts_windows(10000, 10)[i][1]
             /\ end_time_ms = equal_parts_windows(10000, 10)[i][2]
    \* beat-aligned candidates and isolated noise
    \/ /\ rt_class = "ChorusVerseRhythmTracker"
       /\ rt_part_len_seconds = 20
       /\ rt_tempo = 6000
       /\ rt_duration = 40
       /\ rt_tolerance = 1
       /\ \E s \in BeatsWithNoise : rt_peak_times = in_ticks(s, 6000, 0)
       /\ beat_times = beat_grid(6000, 40, 0)
       /\ start_time_ms = 0 /\ end_time_ms = 40
    \* songs in equal parts: whole parts, a remainder, a song shorter than a part
    \/ /\ rt_class = "EqualPartsRhythmTracker"
       /\ rt_part_len_seconds \in PartLens
       /\ rt_tempo = 120
       /\ rt_duration \in SongDurations
       /\ rt_tolerance = 10
       /\ rt_peak_times = in_ticks(ImpulseTrain(0), 120, 0)
       /\ beat_times = beat_grid(120, rt_duration, 0)
       /\ \E i \in 1 .. Len(equal_parts_windows(rt_duration, rt_part_len_seconds)) :
             /\ start_time_ms = equal_parts_windows(rt_duration, rt_part_len_seconds)[i][1]
             /\ end_time_ms = equal_parts_windows(rt_duration, rt_part_len_seconds)[i][2]

RhythmInit ==
    /\ BeatIdle
    /\ PeakIdle
    /\ TempoIdle
    /\ FactoryIdle
    /\ EvIdle
    /\ SongPartsIdle
    /\ RhythmInputs
    /\ counts = << >>
    /\ rt_distances = << >>
    /\ rt_score = << >>
    /\ shifts = << >>
    /\ rhythmic_peaks_in_part = << >>
    /\ rt_i = 0
    /\ rt_pc = "construct"

rt_inputs == <<rt_class, rt_part_len_seconds, rt_tempo, rt_duration, rt_tolerance, rt_peak_times, beat_times,
               start_time_ms, end_time_ms>>

\* The constructor.  EqualPartsRhythmTracker.__init__ (parts.py, lines 45-46)
\* calls RhythmTracker.__init__ with ten positional arguments, the seventh
\* being num_rhythmic_onsets; RhythmTracker.__init__ takes nine: TypeError.
\* ChorusVerseRhythmTracker.__init__ passes nine.
construct ==
    /\ rt_pc = "construct"
    /\ rt_pc' = IF rt_class = "EqualPartsRhythmTracker" THEN "TypeError" ELSE "call"
    /\ UNCHANGED <<rt_inputs, counts, rt_distances, rt_score, shifts, rhythmic_peaks_in_part, rt_i>>
    /\ UNCHANGED rhythm_rest

\* _find_rhythmic_onsets_parts(start_time_ms, end_time_ms) calls
\* _dominant_time_shifts, which calls _calculate_score.
calculate_score ==
    /\ rt_pc = "call"
    /\ IF _calculate_score.error
       THEN /\ rt_pc' = "IndexError"
            /\ UNCHANGED <<counts, rt_distances, rt_score>>
       ELSE /\ counts' = _calculate_score.score
            /\ rt_distances' = _calculate_score.distances
            /\ rt_score' = [j \in DOMAIN counts' |-> Frac(counts'[j], 1)]
            /\ rt_pc' = "average"
    /\ rt_i' = 0
    /\ UNCHANGED <<rt_inputs, shifts, rhythmic_peaks_in_part>>
    /\ UNCHANGED rhythm_rest

\* _average_score, one iteration of "for time, s in scores.items()".
average_score ==
    /\ rt_pc = "average"
    /\ rt_i < Cardinality(DOMAIN rt_score)
    /\ rt_score' = [rt_score EXCEPT ![key_at(rt_score, rt_i)] =
                       average_key(rt_score, key_at(rt_score, rt_i))]
    /\ rt_i' = rt_i + 1
    /\ UNCHANGED <<rt_inputs, counts, rt_distances, shifts, rhythmic_peaks_in_part, rt_pc>>
    /\ UNCHANGED rhythm_rest

\* _average_score returns; if score == {}: return [], else shifts = [].
average_done ==
    /\ rt_pc = "average"
    /\ rt_i >= Cardinality(DOMAIN rt_score)
    /\ shifts' = << >>
    /\ rt_pc' = IF DOMAIN rt_score = {} THEN "collect" ELSE "pick"
    /\ UNCHANGED <<rt_inputs, counts, rt_distances, rt_score, rhythmic_peaks_in_part, rt_i>>
    /\ UNCHANGED rhythm_rest

\* _dominant_time_shifts, one iteration of "for i in range(4)".
pick_dominant ==
    /\ rt_pc = "pick"
    /\ LET time == max_item(rt_score)
       IN  /\ shifts' = Append(shifts, <<time, rt_score[time]>>)
           /\ rt_score' = suppress(rt_score, time)
    /\ rt_pc' = IF Len(shifts') >= 4 THEN "collect" ELSE "pick"
    /\ UNCHANGED <<rt_inputs, counts, rt_distances, rhythmic_peaks_in_part, rt_i>>
    /\ UNCHANGED rhythm_rest

\* _find_rhythmic_onsets_parts, lines 141-166: the candidates of the window
\* whose distance is within the tolerance of a dominant shift.
collect_rhythmic_peaks ==
    /\ rt_pc = "collect"
    /\ LET r == rhythmic_peaks(1, 0, << >>)
       IN  IF r.error
           THEN rt_pc' = "IndexError" /\ UNCHANGED rhythmic_peaks_in_part
           ELSE rt_pc' = "done" /\ rhythmic_peaks_in_part' = r.peaks
    /\ UNCHANGED <<rt_inputs, counts, rt_distances, rt_score, shifts, rt_i>>
    /\ UNCHANGED rhythm_rest

RhythmNext ==
    \/ construct
    \/ calculate_score
    \/ average_score
    \/ average_done
    \/ pick_dominant
    \/ collect_rhythmic_peaks

SpecRhythm == RhythmInit /\ [][RhythmNext]_vars

\* ================================================================ song parts
\* rmse_diff[lo:hi] = 0 as numpy does it: a negative lo counts from the end of
\* the array, and both ends are clipped to the array.
slice_bound(n, len) ==
    IF n < 0 THEN (IF n + len < 0 THEN 0 ELSE n + len)
    ELSE IF n > len THEN len ELSE n
zero_slice(x, lo, hi) ==
    [k \in 1 .. Len(x) |->
        IF slice_bound(lo, Len(x)) <= k - 1 /\ k - 1 < slice_bound(hi, Len(x)) THEN 0 ELSE x[k]]

\* self.sampling_rate*10//self.hop_length: the frames of 10 seconds.
ten_seconds == (sp_sampling_rate * 10) \div sp_hop_length

\* max_parts = int(self.duration // 20)
max_parts == sp_duration \div 20

\* Inputs: a frame every 10 or every 5 seconds; the energy curve has one value
\* per frame of the song and rmse_diff one fewer.
EnergySteps == 0 .. 2
SongPartsInit ==
    /\ BeatIdle
    /\ PeakIdle
    /\ TempoIdle
    /\ FactoryIdle
    /\ RhythmIdle
    /\ EvIdle
    /\ sp_sampling_rate = 1
    /\ sp_hop_length \in {5, 10}
    /\ sp_duration \in {20, 40, 50}
    /\ rmse_diff \in [1 .. ((sp_duration * sp_sampling_rate) \div sp_hop_length) - 1 -> EnergySteps]
    /\ part_transitions = <<0>>
    /\ sp_i = 0
    /\ sp_pc = "extract"

\* One iteration of "for i in range(max_parts)", lines 67-69.
extract_transition ==
    /\ sp_pc = "extract"
    /\ sp_i < max_parts
    /\ LET peak == argmax(rmse_diff)
       IN  /\ rmse_diff' = zero_slice(rmse_diff, peak - ten_seconds, peak + ten_seconds)
           /\ part_transitions' = Append(part_transitions, peak)
    /\ sp_i' = sp_i + 1
    /\ UNCHANGED <<sp_sampling_rate, sp_hop_length, sp_duration, sp_pc>>
    /\ UNCHANGED song_parts_rest

\* The loop ends; the transitions are returned (as times, frames_to_time).
return_transitions ==
    /\ sp_pc = "extract"
    /\ sp_i >= max_parts
    /\ sp_pc' = "done"
    /\ UNCHANGED <<sp_sampling_rate, sp_hop_length, sp_duration, rmse_diff, part_transitions, sp_i>>
    /\ UNCHANGED song_parts_rest

SongPartsNext == extract_transition \/ return_transitions

SpecSongParts == SongPartsInit /\ [][SongPartsNext]_vars

\* C28: find_song_parts returns time 0 and at most duration // 20 boundary
\* candidates, no two of which are within 10 seconds of each other (none is
\* extracted twice).
C28_TransitionsApart ==
    sp_pc = "done" =>
        /\ part_transitions[1] = 0
        /\ Len(part_transitions) <= 1 + sp_duration \div 20
        /\ \A a, b \in 2 .. Len(part_transitions) :
              a < b => Abs(part_transitions[a] - part_transitions[b]) >= ten_seconds

\* ---------------------------------------------------------------- properties of the rhythmic onsets

in_window(p) == RtTicks(start_time_ms) <= p /\ p < RtTicks(end_time_ms)
candidates_in_window ==
    { rt_peak_times[k] : k \in { n \in 1 .. Len(rt_peak_times) : in_window(rt_peak_times[n]) } }
returned == { rhythmic_peaks_in_part[k] : k \in 1 .. Len(rhythmic_peaks_in_part) }

\* C12: the dominant offsets returned by _dominant_time_shifts are pairwise
\* more than tolerance milliseconds apart; no offset is returned twice.
C12_DominantOffsetsApart ==
    rt_pc \in {"collect", "done"} =>
        \A a, b \in 1 .. Len(shifts) :
            a < b => Abs(shifts[a][1] - shifts[b][1]) > rt_tolerance

\* C13: what _find_rhythmic_onsets_parts returns for the window holds only
\* candidates of the window, in candidate order, each of them at most once.
C13_OnsetsAreCandidatesOnce ==
    rt_pc = "done" =>
        /\ returned \subseteq candidates_in_window
        /\ \A a, b \in 1 .. Len(rhythmic_peaks_in_part) :
               a < b => rhythmic_peaks_in_part[a] < rhythmic_peaks_in_part[b]

\* The impulse train of 20 candidates at 0, 0.5, ..., 9.5 s given to the
\* equal-parts tracker at 120 BPM; its first part is the window [0, 10000).
impulse_train_in_equal_parts ==
    /\ rt_class = "EqualPartsRhythmTracker"
    /\ rt_tempo = 120
    /\ rt_peak_times = in_ticks(ImpulseTrain(0), 120, 0)
    /\ start_time_ms = 0 /\ end_time_ms = 10000

\* C14: for the impulse train at 120 BPM the equal-parts tracker ends by
\* returning exactly the 20 candidate times.
C14_ImpulseTrainReturned ==
    (impulse_train_in_equal_parts /\ rt_pc \in {"TypeError", "IndexError", "done"}) =>
        rt_pc = "done" /\ rhythmic_peaks_in_part = rt_peak_times

\* The offset of a candidate from the beat before it, in ticks, and the
\* distance of two offsets modulo the period (60000 ticks).
beat_aligned(p) == \E k \in 1 .. Len(beat_times) : beat_times[k] = p
offset(p) == (p - beat_times[1]) % 60000
offsets_apart(p, q) ==
    LET d == (offset(p) - offset(q)) % 60000
    IN  IF d < 60000 - d THEN d ELSE 60000 - d
beats_with_isolated_noise ==
    /\ \A k \in 1 .. Len(beat_times) :
           in_window(beat_times[k]) => beat_times[k] \in candidates_in_window
    /\ \E p \in candidates_in_window : beat_aligned(p)
    /\ \E p \in candidates_in_window : ~ beat_aligned(p)
    /\ \A p \in candidates_in_window : ~ beat_aligned(p) =>
           \A q \in candidates_in_window \ {p} :
               offsets_apart(p, q) > RtTicks(2 * rt_tolerance)

\* C15: with one candidate on every beat and isolated noise between, the
\* result holds every beat-aligned candidate and none of the noise.
C15_NoiseExcluded ==
    (rt_pc = "done" /\ beats_with_isolated_noise) =>
        \A p \in candidates_in_window : p \in returned <=> beat_aligned(p)

\* The sum of the counts of the buckets lo .. hi (by halves).
RECURSIVE count_sum(_, _)
count_sum(lo, hi) ==
    IF lo > hi THEN 0
    ELSE IF lo = hi THEN (IF lo \in DOMAIN counts THEN counts[lo] ELSE 0)
    ELSE count_sum(lo, (lo + hi) \div 2) + count_sum(((lo + hi) \div 2) + 1, hi)

score_calculated == rt_pc \in {"average", "pick", "collect", "done"}

\* C23: every key of the histogram of _calculate_score lies in [0, period_ms),
\* and the counts add up to 2 * tolerance for every candidate of the window
\* and nothing for the candidates outside it.
C23_HistogramKeysAndTotal ==
    score_calculated =>
        /\ \A key \in DOMAIN counts : 0 <= key /\ key * rt_tempo < 60000
        /\ count_sum(0, period_int - 1) =
               2 * rt_tolerance * Cardinality(candidates_in_window)

\* A histogram with a wrapped offset, of a window that leaves candidates out.
C23_Witness ==
    /\ score_calculated
    /\ (period_int - 1) \in DOMAIN counts
    /\ Cardinality(candidates_in_window) >= 1
    /\ \E k \in 1 .. Len(rt_peak_times) : ~ in_window(rt_peak_times[k])

\* C24: for a candidate of the window at or after the first beat, the distance
\* the forward scan computes is measured from the latest beat at or before the
\* candidate: 0 <= distance < period_ms.
C24_DistanceWithinPeriod ==
    score_calculated =>
        \A k \in 1 .. Len(rt_distances) :
            rt_distances[k][1] >= beat_times[1] =>
                /\ 0 <= rt_distances[k][2]
                /\ rt_distances[k][2] * rt_tempo < 60000

\* The sum of the counts, as they were before smoothing, of the other
\* populated buckets among lo .. hi that the window of bucket time reaches.
RECURSIVE neighbour_count_sum(_, _, _)
neighbour_count_sum(time, lo, hi) ==
    IF lo > hi THEN 0
    ELSE IF lo = hi THEN (IF is_neighbour(counts, time, lo) THEN counts[lo] ELSE 0)
    ELSE neighbour_count_sum(time, lo, (lo + hi) \div 2) +
         neighbour_count_sum(time, ((lo + hi) \div 2) + 1, hi)

smoothed == rt_pc = "pick" /\ shifts = << >>

\* C25: after _average_score the value of every populated bucket is its count
\* plus the counts of the other populated buckets of its window, divided by
\* the number of buckets summed, the counts being those of the histogram
\* before smoothing.
C25_AverageOfOriginalCounts ==
    smoothed =>
        \A time \in DOMAIN counts :
            rt_score[time] =
                Frac(counts[time] +
                         neighbour_count_sum(time, time - rt_tolerance, time + rt_tolerance - 1),
                     1 + Cardinality({ j \in tolerance_window(time) :
                                          is_neighbour(counts, time, j) }))

\* C26: _dominant_time_shifts returns at most 4 offsets, every one of them
\* picked with a strictly positive smoothed score (none once all the buckets
\* left are zero), and an empty list for an empty histogram.
C26_PickedWithPositiveScore ==
    rt_pc \in {"collect", "done"} =>
        /\ Len(shifts) <= 4
        /\ \A k \in 1 .. Len(shifts) : shifts[k][2].num > 0
        /\ DOMAIN counts = {} => shifts = << >>

\* The buckets a candidate with this distance incremented in _calculate_score.
buckets_voted(distance) == { j % period_int : j \in tolerance_window(distance) }

\* C29: a candidate of the window is classified as rhythmic if and only if one
\* of the buckets it incremented in _calculate_score is a dominant offset.
C29_ClassifiedByVotedBuckets ==
    rt_pc = "done" =>
        \A k \in 1 .. Len(rt_distances) :
            rt_distances[k][1] \in returned <=>
                buckets_voted(rt_distances[k][2]) \cap shifts_ms # {}

\* C27: the equal-parts tracker configured with part_len_seconds = L scores the
\* windows [i*L, (i+1)*L) for i below floor(duration/L) and then
\* [floor(duration/L)*L, duration), which are disjoint and cover [0, duration):
\* each window starts where the one before ends.
C27_EqualPartsWindowsScored ==
    rt_class = "EqualPartsRhythmTracker" =>
        LET windows == equal_parts_windows(rt_duration, rt_part_len_seconds)
        IN  /\ windows[1][1] = 0
            /\ windows[Len(windows)][2] = rt_duration
            /\ \A i \in 1 .. Len(windows) :
                  /\ windows[i][1] <= windows[i][2]
                  /\ i < Len(windows) => windows[i][2] = windows[i + 1][1]
                  /\ i < Len(windows) =>
                         windows[i][2] - windows[i][1] = rt_part_len_seconds * 1000
            /\ \E i \in 1 .. Len(windows) : windows[i] = <<start_time_ms, end_time_ms>>
            /\ rt_pc # "TypeError"

====
